---- MODULE Spec2Model ----
(***************************************************************************)
(* sentinel-watch frontend: the stream client (hooks/useEventStream.js)    *)
(* and the geo hit-test (utils/geoUtils.js).                               *)
(*                                                                         *)
(* The stream client is modelled as the React hook's state cells and refs  *)
(* plus the browser objects it drives: the WebSocket objects it creates    *)
(* (their readyState) and the timers it schedules with setTimeout.  Every  *)
(* handler of the hook is one action; the state updates a handler queues   *)
(* are committed by the action of React's next render.                     *)
(***************************************************************************)
EXTENDS Integers, Sequences, FiniteSets, TLC

\* ------------------------------------------------------------------ bounds
\* connection attempts (calls of `new WebSocket`) a behaviour may make
MaxSockets == 3
\* runs of the effect's cleanup (re-runs of the effect and unmounts) a
\* behaviour may make
MaxTeardowns == 1
\* frames handled in the lifecycle specification
MaxLifeMsgs == 2
\* frames handled in the window specification
MaxWinMsgs == 3
\* length of the long batch (one more than the default window cap)
LongLen == 201
\* frames handled in the view specification
MaxViewMsgs == 1
\* map clicks handled in the view specification
MaxClicks == 1
\* connection attempts in the view specification
MaxViewSockets == 2
\* handlers whose state updates may be waiting for React's next render
MaxQueued == 2

\* ------------------------------------------------------- program constants
\* useEventStream(maxEvents = 200)
DefaultMaxEvents == 200
\* msg.events.slice(0, 20) / .slice(0, 20)
FeedCap == 20
\* setTimeout(connect, 3000), in seconds
BackoffDelay == 3

\* ------------------------------------------------------------- JS values
\* A JS value as the message handler sees it: an array or a string (both
\* have slice, [0] and are iterable), a number (neither slice nor
\* iterable, [0] is undefined), null and undefined ([0] throws).
Arr(s) == [kind |-> "array", items |-> s]
Str(s) == [kind |-> "string", items |-> s]
Num == [kind |-> "number", items |-> <<>>]
Null == [kind |-> "null", items |-> <<>>]
Undefined == [kind |-> "undefined", items |-> <<>>]

Evt(id, ts) == [kind |-> "event", event_id |-> id, timestamp |-> ts]
Chr(c) == [kind |-> "char", code |-> c]
NoEvent == [kind |-> "null"]

Min(a, b) == IF a < b THEN a ELSE b

\* Array.prototype.slice(0, n) / String.prototype.slice(0, n)
Slice(v, n) == [v EXCEPT !.items = SubSeq(v.items, 1, Min(n, Len(v.items)))]
HasSlice(v) == v.kind \in {"array", "string"}
\* [...v] is defined for iterables only
Iterable(v) == v.kind \in {"array", "string"}
\* v[0] throws a TypeError on null and undefined
IndexThrows(v) == v.kind \in {"null", "undefined"}
\* v[0] || null
FirstOrNull(v) == IF Len(v.items) > 0 THEN v.items[1] ELSE NoEvent

\* --------------------------------------------------------------- frames
\* Events on the wire.  Timestamps are chosen against arrival order (A is
\* newer than D by timestamp, D arrives later), and A2 repeats A's id.
EvA == Evt(1, 2)
EvB == Evt(2, 1)
EvC == Evt(3, 3)
EvD == Evt(4, 0)
EvX == Evt(5, 4)
EvY == Evt(6, 5)
EvA2 == Evt(1, 6)
LongBatch == [i \in 1..LongLen |-> Evt(100 + i, 0)]

JsonFrame(t, ev) == [json |-> TRUE, type |-> t, events |-> ev]
\* a frame JSON.parse rejects
NonJsonFrame == [json |-> FALSE, type |-> "", events |-> Undefined]
\* a frame with another type, and one with no type at all
OtherFrames == {JsonFrame("stats", Arr(<<EvX>>)), JsonFrame("", Arr(<<EvY>>))}
\* values of `events` that are no array
NonArrays == {Undefined, Null, Num, Str(<<Chr(1), Chr(2)>>)}
MalformedFrames ==
    {NonJsonFrame} \cup {JsonFrame(t, v) : t \in {"history", "new_events"}, v \in NonArrays}
HistoryBatches == {<<>>, <<EvA, EvB, EvC>>, <<EvX, EvY>>, LongBatch}
DeltaBatches == {<<>>, <<EvD>>, <<EvA2>>, <<EvC, EvD>>}
WellFormedFrames ==
    {JsonFrame("history", Arr(b)) : b \in HistoryBatches}
        \cup {JsonFrame("new_events", Arr(b)) : b \in DeltaBatches}
WinFrames == WellFormedFrames \cup MalformedFrames \cup OtherFrames
\* the frames of the lifecycle specification
LifeFrames == { JsonFrame("history", Arr(<<EvA, EvB>>)), JsonFrame("new_events", Arr(<<EvD>>)) }
NoFrame == [json |-> FALSE, type |-> "none", events |-> Undefined]

\* ---------------------------------------------------------------- state
VARIABLES
    events,          \* useState([])    : the full window
    feed,            \* useState([])    : the recent feed
    connected,       \* useState(false)
    latestEvent,     \* useState(null)
    queue,           \* the state updates the handlers queued and React has not rendered yet
    wsRef,           \* useRef(null)    : index of the socket held, 0 for null
    reconnectTimer,  \* useRef(null)    : index of the timer held, 0 for null
    maxEvents,       \* the hook's argument
    sock,            \* readyState of every WebSocket the hook created
    timers,          \* setTimeout(connect, 3000) timers: seconds left, -1 when not pending
    nextSock,        \* index of the next connection attempt
    connectCalls,    \* calls of connect() so far
    urlOk,           \* whether `new WebSocket(WS_URL)` succeeds in this deployment
    mounted,         \* the component using the hook is mounted
    teardowns,       \* runs of the effect's cleanup so far
    renderFailed,    \* a render threw and React unmounted the tree
    msgCount,        \* frames handled so far
    delivered,       \* the sockets whose onmessage has handled a frame
    lastError,       \* the socket whose onerror ran last, 0 once a socket has opened since
    lastFrame,       \* the frame handled last
    hit,             \* the findNearestEvent call of the hit-test specification
    proj,            \* the last projection round trip: its arguments and its results
    selected,        \* App: useState(null)   : the selected event
    filter,          \* App: useState("all")  : the event type filter
    tab,             \* App: useState("map")  : the view shown
    hovered,         \* WorldMap: useState(null) : the hovered event
    click,           \* WorldMap: the clicks handled so far and the pointer of the last
    random           \* Math.random : which of the streams of numbers this run draws

streamVars ==
    << events, feed, connected, latestEvent, queue, wsRef, reconnectTimer, maxEvents, sock,
       timers, nextSock, connectCalls, urlOk, mounted, teardowns, renderFailed,
       msgCount, delivered, lastError, lastFrame >>

\* the arguments the hook is called with: a small cap and the default
MaxEventsChoices == {2, DefaultMaxEvents}
\* the state of geoUtils' callers and of the view (App and WorldMap)
geoVars == << hit, proj >>
appVars == << selected, filter, tab, hovered, click, random >>
viewVars == << geoVars, appVars >>
vars == << streamVars, viewVars >>

Attempts == 1..MaxSockets
NoTimer == 0 - 1
Live(s) == sock[s] \in {"CONNECTING", "OPEN"}

StreamInit ==
    /\ events = Arr(<<>>)
    /\ feed = Arr(<<>>)
    /\ connected = FALSE
    /\ latestEvent = NoEvent
    /\ queue = << >>
    /\ wsRef = 0
    /\ reconnectTimer = 0
    /\ maxEvents \in MaxEventsChoices
    /\ sock = [s \in Attempts |-> "NONE"]
    /\ timers = [t \in Attempts |-> NoTimer]
    /\ nextSock = 1
    /\ connectCalls = 0
    /\ urlOk \in BOOLEAN
    /\ mounted = FALSE
    /\ teardowns = 0
    /\ renderFailed = FALSE
    /\ msgCount = 0
    /\ delivered = {}
    /\ lastError = 0
    /\ lastFrame = NoFrame

\* ------------------------------------------------------- browser objects
\* WebSocket.close(): a connecting or open socket starts closing, its close
\* event comes later; on a closing or closed socket it does nothing.
WsClose(st) == IF st \in {"CONNECTING", "OPEN"} THEN "CLOSING" ELSE st
\* clearTimeout(id): cancels that timer if it is pending; null cancels nothing
ClearTimeout(tm, id) == IF id = 0 THEN tm ELSE [tm EXCEPT ![id] = NoTimer]
\* variants of the retry timer: no delay, and no timer at all
SetTimeoutNow(tm, id) == [tm EXCEPT ![id] = 0]
SetTimeoutNever(tm, id) == tm
\* setTimeout(connect, 3000)
SetTimeout(tm, id) == [tm EXCEPT ![id] = BackoffDelay]

\* ---------------------------------------------------- React state updates
\* A setter called from a socket handler does not change the state cell: it
\* queues an update, and React applies the queued updates, in the order of
\* the calls, when it next renders the component.  Other handlers can run
\* before that render.  An entry of the queue is what one handler queued:
\* setConnected(v), or the setters of one frame.
ConnectedUpdate(v) == [kind |-> "connected", value |-> v, frame |-> NoFrame]
FrameUpdate(f) == [kind |-> "frame", value |-> FALSE, frame |-> f]
\* the setters of a handler: the update is queued while the component is
\* mounted; on an unmounted component a setter does nothing
Enqueue(u) ==
    IF mounted
    THEN /\ Len(queue) < MaxQueued
         /\ queue' = Append(queue, u)
    ELSE UNCHANGED queue

\* ------------------------------------------------------------- connect
\* a variant of the guard that never returns early
AlreadyOpenNever(sk) == FALSE
\* if (wsRef.current?.readyState === WebSocket.OPEN) return;
AlreadyOpen(sk) == wsRef # 0 /\ sk[wsRef] = "OPEN"

\* connect(), called with the timers and the sockets as its caller leaves
\* them.  Each call that gets past the guard is one connection attempt: it
\* creates a socket, or the constructor throws and the catch block schedules
\* a retry.
Connect(tm, sk) ==
    /\ connectCalls' = connectCalls + 1
    /\ IF AlreadyOpen(sk)
       THEN /\ timers' = tm
            /\ sock' = sk
            /\ UNCHANGED << wsRef, nextSock, reconnectTimer >>
       ELSE /\ nextSock <= MaxSockets
            /\ nextSock' = nextSock + 1
            /\ IF urlOk
               THEN /\ sock' = [sk EXCEPT ![nextSock] = "CONNECTING"]
                    /\ wsRef' = nextSock
                    /\ timers' = tm
                    /\ UNCHANGED reconnectTimer
               ELSE /\ timers' = SetTimeout(tm, nextSock)
                    /\ reconnectTimer' = nextSock
                    /\ sock' = sk
                    /\ UNCHANGED wsRef

\* the component mounts: useEffect(() => { connect(); ... }) runs for the
\* first time.  An unmounted component is gone: mounting the view again
\* makes a new component with state and refs of its own.
Mount ==
    /\ ~mounted
    /\ teardowns = 0
    /\ ~renderFailed
    /\ mounted' = TRUE
    /\ Connect(timers, sock)
    /\ UNCHANGED << events, feed, connected, latestEvent, queue, maxEvents, urlOk, teardowns,
                    renderFailed, msgCount, delivered, lastError, lastFrame >>
    /\ UNCHANGED viewVars

\* the effect's cleanup: clearTimeout(reconnectTimer.current); wsRef.current?.close()
Cleanup ==
    /\ timers' = ClearTimeout(timers, reconnectTimer)
    /\ sock' = IF wsRef = 0 THEN sock ELSE [sock EXCEPT ![wsRef] = WsClose(@)]

\* the effect runs again on the mounted component: React runs the cleanup
\* and then the effect, one after the other, with nothing in between, so
\* connect is called with the timers and sockets as the cleanup left them.  It
\* does so when the effect's dependency connect is a new function (maxEvents
\* changed), and in development under StrictMode and Fast Refresh.  State,
\* refs and queued updates stay.
Rerun ==
    /\ mounted
    /\ teardowns < MaxTeardowns
    /\ teardowns' = teardowns + 1
    /\ Connect(ClearTimeout(timers, reconnectTimer),
               IF wsRef = 0 THEN sock ELSE [sock EXCEPT ![wsRef] = WsClose(@)])
    /\ UNCHANGED << events, feed, connected, latestEvent, queue, maxEvents, urlOk, mounted,
                    renderFailed, msgCount, delivered, lastError, lastFrame >>
    /\ UNCHANGED viewVars

\* React unmounts the tree: the effect's cleanup runs and updates still
\* queued are never rendered.  The hook's cells keep the values last
\* rendered, which the handlers' closures can no longer change; the state of
\* App and WorldMap is gone with the components, shown as its initial values.
Unmount ==
    /\ mounted' = FALSE
    /\ teardowns' = teardowns + 1
    /\ queue' = << >>
    /\ Cleanup
    /\ UNCHANGED << events, feed, connected, latestEvent, wsRef, reconnectTimer, maxEvents,
                    nextSock, connectCalls, urlOk, msgCount, delivered, lastError, lastFrame >>
    /\ selected' = NoEvent
    /\ filter' = "all"
    /\ tab' = "map"
    /\ hovered' = NoEvent
    /\ UNCHANGED << geoVars, random >>

\* the view using the hook is taken down
Teardown ==
    /\ mounted
    /\ teardowns < MaxTeardowns
    /\ Unmount
    /\ UNCHANGED << renderFailed, click >>

\* ws.onopen: the handshake of socket s succeeded
OnOpen(s) ==
    /\ sock[s] = "CONNECTING"
    /\ sock' = [sock EXCEPT ![s] = "OPEN"]
    /\ Enqueue(ConnectedUpdate(TRUE))
    /\ timers' = ClearTimeout(timers, reconnectTimer)
    /\ lastError' = 0
    /\ UNCHANGED << events, feed, connected, latestEvent, wsRef, reconnectTimer, maxEvents,
                    nextSock, connectCalls, urlOk, mounted, teardowns, renderFailed, msgCount,
                    delivered, lastFrame >>
    /\ UNCHANGED viewVars

\* ws.onerror: the connection of socket s fails while it is connecting or
\* open, or after close() was called on it (close() on a connecting socket
\* fails the connection).  The browser sets readyState to CLOSED, fires the
\* error event (the handler's ws.close() finds the socket closed and does
\* nothing) and then the close event, all in one task: onclose runs before
\* anything else can.
OnError(s) ==
    /\ sock[s] \in {"CONNECTING", "OPEN", "CLOSING"}
    /\ lastError' = s
    /\ sock' = [sock EXCEPT ![s] = WsClose("CLOSED")]
    /\ Enqueue(ConnectedUpdate(FALSE))
    /\ timers' = SetTimeout(timers, s)
    /\ reconnectTimer' = s
    /\ UNCHANGED << events, feed, connected, latestEvent, wsRef, maxEvents, nextSock,
                    connectCalls, urlOk, mounted, teardowns, renderFailed, msgCount, delivered,
                    lastFrame >>
    /\ UNCHANGED viewVars

\* a close handler that also drops the windows (what the code does not do)
OnCloseDropsWindows(s) ==
    /\ sock[s] \in {"CONNECTING", "OPEN", "CLOSING"}
    /\ sock' = [sock EXCEPT ![s] = "CLOSED"]
    /\ Enqueue(ConnectedUpdate(FALSE))
    /\ timers' = SetTimeout(timers, s)
    /\ reconnectTimer' = s
    /\ events' = Arr(<< >>)
    /\ feed' = Arr(<< >>)
    /\ latestEvent' = NoEvent
    /\ UNCHANGED << connected, wsRef, maxEvents, nextSock, connectCalls, urlOk, mounted,
                    teardowns, renderFailed, msgCount, delivered, lastError, lastFrame >>
    /\ UNCHANGED viewVars

\* ws.onclose: the close event of socket s (the transport dropped, the
\* attempt failed, or a close() call completed)
OnClose(s) ==
    /\ sock[s] \in {"CONNECTING", "OPEN", "CLOSING"}
    /\ sock' = [sock EXCEPT ![s] = "CLOSED"]
    /\ Enqueue(ConnectedUpdate(FALSE))
    /\ timers' = SetTimeout(timers, s)
    /\ reconnectTimer' = s
    /\ UNCHANGED << events, feed, connected, latestEvent, wsRef, maxEvents, nextSock,
                    connectCalls, urlOk, mounted, teardowns, renderFailed, msgCount, delivered,
                    lastError, lastFrame >>
    /\ UNCHANGED viewVars

\* one second passes for every pending timer
Tick ==
    /\ \E t \in Attempts : timers[t] > 0
    /\ timers' = [t \in Attempts |-> IF timers[t] > 0 THEN timers[t] - 1 ELSE timers[t]]
    /\ UNCHANGED << events, feed, connected, latestEvent, queue, wsRef, reconnectTimer,
                    maxEvents, sock, nextSock, connectCalls, urlOk, mounted, teardowns,
                    renderFailed, msgCount, delivered, lastError, lastFrame >>
    /\ UNCHANGED viewVars

\* timer t has run its delay: the browser calls connect
FireTimer(t) ==
    /\ timers[t] = 0
    /\ Connect([timers EXCEPT ![t] = NoTimer], sock)
    /\ UNCHANGED << events, feed, connected, latestEvent, queue, maxEvents, urlOk, mounted,
                    teardowns, renderFailed, msgCount, delivered, lastError, lastFrame >>
    /\ UNCHANGED viewVars

\* ------------------------------------------------------------ ws.onmessage
\* setEvents(msg.events.slice(0, maxEvents))
HistoryEvents(msgEvents) == Slice(msgEvents, maxEvents)
\* setFeed(msg.events.slice(0, 20))
HistoryFeed(msgEvents) == Slice(msgEvents, FeedCap)
\* setLatestEvent(newEvts[0] || null)
DeltaLatest(newEvts) == FirstOrNull(newEvts)
\* variants of the delta update with a plausible slip: the cap left out, the
\* batch put behind the previous window
DeltaEventsUncapped(newEvts, prev) == Arr(newEvts.items \o prev.items)
DeltaEventsAppended(newEvts, prev) == Slice(Arr(prev.items \o newEvts.items), maxEvents)
\* setEvents((prev) => [...newEvts, ...prev].slice(0, maxEvents))
DeltaEvents(newEvts, prev) == Slice(Arr(newEvts.items \o prev.items), maxEvents)
\* a variant of the feed update with the cap left out
DeltaFeedUncapped(newEvts, prev) == Arr(newEvts.items \o prev.items)
\* setFeed((prev) => [...newEvts, ...prev].slice(0, 20))
DeltaFeed(newEvts, prev) == Slice(Arr(newEvts.items \o prev.items), FeedCap)

\* the try block throws before any setter is called, and the catch block
\* logs: JSON.parse fails, msg.events has no slice, or newEvts[0] throws
MsgThrows(f) ==
    \/ ~f.json
    \/ f.type = "history" /\ ~HasSlice(f.events)
    \/ f.type # "history" /\ f.type = "new_events" /\ IndexThrows(f.events)

\* if (msg.type === "history")
IsHistory(f) == f.type = "history"
\* a variant with a plain else in place of the second type test
IsNewEventsElse(f) == TRUE
\* else if (msg.type === "new_events")
IsNewEvents(f) == f.type = "new_events"

\* the handler calls its setters: nothing threw, and the frame is of one of
\* the two types
CallsSetters(f) == ~MsgThrows(f) /\ (IsHistory(f) \/ IsNewEvents(f))

\* the updater (prev) => [...newEvts, ...prev] the handler queued throws
\* when React applies it: a new_events frame whose events can be indexed but
\* not spread
RenderThrows(f) == ~MsgThrows(f) /\ ~IsHistory(f) /\ IsNewEvents(f) /\ ~Iterable(f.events)

\* ws.onmessage: socket s delivers frame f (the browser delivers messages on
\* open sockets only).  The handler queues its updates and returns.
OnMessage(s, f, cap) ==
    /\ sock[s] = "OPEN"
    /\ msgCount < cap
    /\ msgCount' = msgCount + 1
    /\ delivered' = delivered \cup {s}
    /\ lastFrame' = f
    /\ IF CallsSetters(f) THEN Enqueue(FrameUpdate(f)) ELSE UNCHANGED queue
    /\ UNCHANGED << events, feed, connected, latestEvent, wsRef, reconnectTimer, maxEvents,
                    nextSock, connectCalls, urlOk, lastError, renderFailed, mounted, teardowns,
                    timers, sock >>
    /\ UNCHANGED viewVars

\* ----------------------------------------------------------------- render
\* the hook's state cells
Cells ==
    [events |-> events, feed |-> feed, connected |-> connected, latestEvent |-> latestEvent]
\* React applies one queued entry to the cells: a value replaces the cell,
\* an updater is called with the cell as the entries before it left it
ApplyUpdate(c, u) ==
    IF u.kind = "connected" THEN [c EXCEPT !.connected = u.value]
    ELSE IF IsHistory(u.frame)
    THEN [c EXCEPT !.events = HistoryEvents(u.frame.events),
                   !.feed = HistoryFeed(u.frame.events)]
    ELSE [c EXCEPT !.latestEvent = DeltaLatest(u.frame.events),
                   !.events = DeltaEvents(u.frame.events, c.events),
                   !.feed = DeltaFeed(u.frame.events, c.feed)]
\* the cells after the entries of queue q were applied in order
RECURSIVE ApplyQueue(_, _)
ApplyQueue(c, q) == IF q = << >> THEN c ELSE ApplyQueue(ApplyUpdate(c, Head(q)), Tail(q))
\* an updater in queue q throws
QueueThrows(q) == \E i \in 1..Len(q) : q[i].kind = "frame" /\ RenderThrows(q[i].frame)
\* App, which renders the hook, throws on the cells c.  A window that is a
\* string with characters in it is taken for the events (wsEvents.length >
\* 0) and has no filter (events.filter(...), a TypeError); a feed that is
\* such a string is handed to EventFeed, whose feed.slice(0, 20).map(...)
\* throws likewise.  An empty string has length 0 and gives way to the mock
\* events, and an array of characters renders: every field read of a
\* character is undefined and none of them is dereferenced.
AppThrows(c) ==
    \/ c.events.kind = "string" /\ Len(c.events.items) > 0
    \/ c.feed.kind = "string" /\ Len(c.feed.items) > 0

\* a render threw: nothing of it is committed and, there being no error
\* boundary, React unmounts the tree, which runs the effect's cleanup
RenderFails ==
    /\ renderFailed' = TRUE
    /\ Unmount

\* React renders the component with the queued updates applied and commits
\* the result, unless an updater throws or App throws on the cells the
\* updates leave
Render ==
    /\ queue # << >>
    /\ UNCHANGED click
    /\ IF QueueThrows(queue) \/ AppThrows(ApplyQueue(Cells, queue))
       THEN RenderFails
       ELSE /\ events' = ApplyQueue(Cells, queue).events
            /\ feed' = ApplyQueue(Cells, queue).feed
            /\ connected' = ApplyQueue(Cells, queue).connected
            /\ latestEvent' = ApplyQueue(Cells, queue).latestEvent
            /\ queue' = << >>
            /\ UNCHANGED << wsRef, reconnectTimer, maxEvents, sock, timers, nextSock,
                            connectCalls, urlOk, mounted, teardowns, renderFailed, msgCount,
                            delivered, lastError, lastFrame >>
            /\ UNCHANGED << geoVars, selected, filter, tab, hovered, random >>

\* ------------------------------------------------- IEEE 754 binary64
\* JavaScript numbers are IEEE 754 doubles.  A natural number of any size is
\* a sequence of limbs in base 2^15, least significant first, the last one
\* nonzero; the empty sequence is zero.
LimbBase == 32768
LimbBits == 15
\* the bits of a double's significand
SignificandBits == 53

RECURSIVE BigStrip(_)
BigStrip(a) ==
    IF a = << >> THEN a
    ELSE IF a[Len(a)] = 0 THEN BigStrip(SubSeq(a, 1, Len(a) - 1)) ELSE a

RECURSIVE BigFromNat(_)
BigFromNat(n) == IF n = 0 THEN << >> ELSE << n % LimbBase >> \o BigFromNat(n \div LimbBase)

Limb(a, i) == IF i <= Len(a) THEN a[i] ELSE 0

RECURSIVE BigAddFrom(_, _, _, _)
BigAddFrom(a, b, i, carry) ==
    IF i > Len(a) /\ i > Len(b)
    THEN (IF carry = 0 THEN << >> ELSE << carry >>)
    ELSE LET t == Limb(a, i) + Limb(b, i) + carry
         IN << t % LimbBase >> \o BigAddFrom(a, b, i + 1, t \div LimbBase)
BigAdd(a, b) == BigAddFrom(a, b, 1, 0)

\* a - b for a >= b
RECURSIVE BigSubFrom(_, _, _, _)
BigSubFrom(a, b, i, borrow) ==
    IF i > Len(a) THEN << >>
    ELSE LET t == a[i] - Limb(b, i) - borrow
         IN IF t < 0 THEN << t + LimbBase >> \o BigSubFrom(a, b, i + 1, 1)
            ELSE << t >> \o BigSubFrom(a, b, i + 1, 0)
BigSub(a, b) == BigStrip(BigSubFrom(a, b, 1, 0))

\* -1, 0 or 1 as a is less than, equal to or greater than b
RECURSIVE BigCmpFrom(_, _, _)
BigCmpFrom(a, b, i) ==
    IF i = 0 THEN 0
    ELSE IF a[i] < b[i] THEN 0 - 1
    ELSE IF a[i] > b[i] THEN 1
    ELSE BigCmpFrom(a, b, i - 1)
BigCmp(a, b) ==
    IF Len(a) < Len(b) THEN 0 - 1
    ELSE IF Len(a) > Len(b) THEN 1
    ELSE BigCmpFrom(a, b, Len(a))

\* a * k for a limb k
RECURSIVE BigMulLimbFrom(_, _, _, _)
BigMulLimbFrom(a, k, i, carry) ==
    IF i > Len(a)
    THEN (IF carry = 0 THEN << >> ELSE << carry >>)
    ELSE LET t == a[i] * k + carry
         IN << t % LimbBase >> \o BigMulLimbFrom(a, k, i + 1, t \div LimbBase)
BigMulLimb(a, k) == IF k = 0 THEN << >> ELSE BigMulLimbFrom(a, k, 1, 0)

\* a * 2^(15 n)
BigShlLimbs(a, n) == IF a = << >> THEN a ELSE [i \in 1..n |-> 0] \o a

RECURSIVE BigMulFrom(_, _, _)
BigMulFrom(a, b, i) ==
    IF i > Len(b) THEN << >>
    ELSE BigAdd(BigShlLimbs(BigMulLimb(a, b[i]), i - 1), BigMulFrom(a, b, i + 1))
BigMul(a, b) == BigMulFrom(a, b, 1)

\* a * 2^n
BigShl(a, n) == BigMulLimb(BigShlLimbs(a, n \div LimbBits), 2 ^ (n % LimbBits))

\* floor(a / k) for a limb k > 0, from limb i down with remainder r
RECURSIVE BigDivLimbFrom(_, _, _, _)
BigDivLimbFrom(a, k, i, r) ==
    IF i = 0 THEN << >>
    ELSE LET t == r * LimbBase + a[i]
         IN BigDivLimbFrom(a, k, i - 1, t % k) \o << t \div k >>
BigDivLimb(a, k) == BigStrip(BigDivLimbFrom(a, k, Len(a), 0))

\* floor(a / 2^n)
BigShr(a, n) ==
    IF n \div LimbBits >= Len(a) THEN << >>
    ELSE BigDivLimb(SubSeq(a, n \div LimbBits + 1, Len(a)), 2 ^ (n % LimbBits))

RECURSIVE BitLen(_)
BitLen(n) == IF n = 0 THEN 0 ELSE 1 + BitLen(n \div 2)
BigBitLen(a) == IF a = << >> THEN 0 ELSE LimbBits * (Len(a) - 1) + BitLen(a[Len(a)])

\* the largest d with d * b <= r, given an estimate that is d, d + 1 or d + 2
QuotientDigit(r, b, estimate) ==
    IF BigCmp(BigMulLimb(b, estimate), r) <= 0 THEN estimate
    ELSE IF BigCmp(BigMulLimb(b, estimate - 1), r) <= 0 THEN estimate - 1
    ELSE estimate - 2
\* the estimate of long division: the two leading limbs of r by the leading
\* limb of b, where b has n limbs, its leading one at least half the base
EstimateDigit(r, b, n) ==
    LET d == (Limb(r, n + 1) * LimbBase + Limb(r, n)) \div b[n]
    IN IF d >= LimbBase THEN LimbBase - 1 ELSE d
\* long division of a by b limb by limb, from limb i of a down, r the
\* remainder so far: the digit d of limb i and of what is left of r2
RECURSIVE BigDivModFrom(_, _, _, _)
DivCons(rest, d) == [q |-> rest.q \o << d >>, r |-> rest.r]
DivStep(a, b, i, r2, d) ==
    DivCons(BigDivModFrom(a, b, i - 1, BigSub(r2, BigMulLimb(b, d))), d)
DivDigit(a, b, i, r2) ==
    DivStep(a, b, i, r2, QuotientDigit(r2, b, EstimateDigit(r2, b, Len(b))))
BigDivModFrom(a, b, i, r) ==
    IF i = 0 THEN [q |-> << >>, r |-> r] ELSE DivDigit(a, b, i, BigStrip(<< a[i] >> \o r))
\* quotient and remainder of a by b > 0; both are first scaled by 2^s so
\* that the leading limb of b is at least half the base
DivUnscaled(qr, s) == [q |-> BigStrip(qr.q), r |-> BigShr(qr.r, s)]
DivScaled(num, b, s) ==
    DivUnscaled(BigDivModFrom(num, BigShl(b, s), Len(num), << >>), s)
DivScaledBy(a, b, s) == DivScaled(BigShl(a, s), b, s)
BigDivMod(a, b) == DivScaledBy(a, b, LimbBits - BitLen(b[Len(b)]))

\* floor of the square root of n < 2^30, bit by bit
RECURSIVE SqrtFrom(_, _, _)
SqrtFrom(n, bit, root) ==
    IF bit = 0 THEN root
    ELSE IF n >= root + bit THEN SqrtFrom(n - (root + bit), bit \div 4, root \div 2 + bit)
    ELSE SqrtFrom(n, bit \div 4, root \div 2)
\* Newton's iteration x -> floor((x + floor(a / x)) / 2) from x above the
\* root, down to the floor of the root
RECURSIVE BigSqrtFrom(_, _)
SqrtIterate(a, x, y) == IF BigCmp(y, x) >= 0 THEN x ELSE BigSqrtFrom(a, y)
BigSqrtFrom(a, x) == SqrtIterate(a, x, BigShr(BigAdd(x, BigDivMod(a, x).q), 1))
\* floor of the square root of a > 0 and whether it is exact; the iteration
\* starts from the root of the leading 29 or 30 bits, rounded up
SqrtWithExact(a, root) == [root |-> root, exact |-> BigCmp(BigMul(root, root), a) = 0]
SqrtStartFrom(a, top, drop) ==
    SqrtWithExact(a, BigSqrtFrom(a,
        BigShl(BigFromNat(SqrtFrom(Limb(top, 1) + LimbBase * Limb(top, 2), 2 ^ 28, 0) + 1),
               drop \div 2)))
SqrtDropping(a, drop) == SqrtStartFrom(a, BigShr(a, drop), drop)
SqrtEvenDrop(len) ==
    IF len <= 30 THEN 0
    ELSE IF (len - 30) % 2 = 0 THEN len - 30 ELSE len - 29
BigSqrt(a) == SqrtDropping(a, SqrtEvenDrop(BigBitLen(a)))

\* A double is (-1)^neg * m * 2^e with m of exactly 53 bits, or zero (m empty).
DZero == [neg |-> FALSE, m |-> << >>, e |-> 0]
IsZero(x) == x.m = << >>
\* a significand of 53 bits, or of 54 after rounding up
RoundNormal(neg, m, ex) ==
    IF BigBitLen(m) > SignificandBits
    THEN [neg |-> neg, m |-> BigShr(m, 1), e |-> ex + 1]
    ELSE [neg |-> neg, m |-> m, e |-> ex]
\* whether the bits dropped are more than half a unit, or half and the kept
\* bits odd
RoundsUp(kept, rest, half, sticky) ==
    \/ BigCmp(rest, half) > 0
    \/ BigCmp(rest, half) = 0 /\ (sticky \/ kept[1] % 2 = 1)
RoundKept(neg, n, e, sticky, kept, drop) ==
    RoundNormal(neg,
                IF RoundsUp(kept, BigSub(n, BigShl(kept, drop)), BigShl(<< 1 >>, drop - 1), sticky)
                THEN BigAdd(kept, << 1 >>) ELSE kept,
                e + drop)
RoundSized(neg, n, e, sticky, len) ==
    IF len <= SignificandBits
    THEN [neg |-> neg, m |-> BigShl(n, SignificandBits - len),
          e |-> e - (SignificandBits - len)]
    ELSE RoundKept(neg, n, e, sticky, BigShr(n, len - SignificandBits), len - SignificandBits)
\* round-to-nearest, ties-to-even: the double nearest to n * 2^e (plus a
\* little more, less than one unit of n, when sticky)
RoundToDouble(neg, n, e, sticky) ==
    IF n = << >> THEN DZero ELSE RoundSized(neg, n, e, sticky, BigBitLen(n))

\* the double of an integer
DFromInt(n) == RoundToDouble(n < 0, BigFromNat(IF n < 0 THEN 0 - n ELSE n), 0, FALSE)
DAbs(x) == [x EXCEPT !.neg = FALSE]

\* x * y
DMul(x, y) ==
    IF IsZero(x) \/ IsZero(y) THEN DZero
    ELSE RoundToDouble(x.neg # y.neg, BigMul(x.m, y.m), x.e + y.e, FALSE)

\* x / y for y nonzero: 56 more bits of quotient than the significands give
DivRounded(x, y, qr) ==
    RoundToDouble(x.neg # y.neg, qr.q, x.e - y.e - 56, qr.r # << >>)
DDiv(x, y) ==
    IF IsZero(x) THEN DZero ELSE DivRounded(x, y, BigDivMod(BigShl(x.m, 56), y.m))

\* -1, 0 or 1 as |x| is less than, equal to or greater than |y|
MagCmp(x, y) ==
    IF IsZero(x) THEN (IF IsZero(y) THEN 0 ELSE 0 - 1)
    ELSE IF IsZero(y) THEN 1
    ELSE IF x.e < y.e THEN 0 - 1
    ELSE IF x.e > y.e THEN 1
    ELSE BigCmp(x.m, y.m)

\* x + y: the sum of the significands brought to the smaller exponent e
AddAligned(x, y, nx, ny, e) ==
    RoundToDouble(IF x.neg = y.neg \/ BigCmp(nx, ny) >= 0 THEN x.neg ELSE y.neg,
                  IF x.neg = y.neg THEN BigAdd(nx, ny)
                  ELSE IF BigCmp(nx, ny) >= 0 THEN BigSub(nx, ny)
                  ELSE BigSub(ny, nx),
                  e, FALSE)
AddAtExponent(x, y, e) == AddAligned(x, y, BigShl(x.m, x.e - e), BigShl(y.m, y.e - e), e)
DAdd(x, y) ==
    IF IsZero(x) THEN y
    ELSE IF IsZero(y) THEN x
    ELSE AddAtExponent(x, y, IF x.e < y.e THEN x.e ELSE y.e)
\* x - y
DSub(x, y) == DAdd(x, [y EXCEPT !.neg = ~y.neg])

\* the square root of x >= 0
SqrtRounded(x, sq, k) == RoundToDouble(FALSE, sq.root, (x.e - k) \div 2, ~sq.exact)
SqrtWidened(x, k) == SqrtRounded(x, BigSqrt(BigShl(x.m, k)), k)
DSqrt(x) == IF IsZero(x) THEN DZero ELSE SqrtWidened(x, IF x.e % 2 = 0 THEN 58 ELSE 59)

\* x < y
DLess(x, y) ==
    IF IsZero(x) THEN ~IsZero(y) /\ ~y.neg
    ELSE IF IsZero(y) THEN x.neg
    ELSE IF x.neg # y.neg THEN x.neg
    ELSE IF x.neg THEN MagCmp(x, y) > 0
    ELSE MagCmp(x, y) < 0

\* Math.hypot(x, y) as V8 computes it: the arguments' magnitudes divided by
\* the larger, the squares summed with Kahan's compensation, the root of
\* the sum times the larger
Square(n) == DMul(n, n)
\* sum1 = n1 * n1 with compensation (sum1 - 0) - sum1, then
\* sum2 = sum1 + (n2 * n2 - compensation)
KahanRoot(sum1, square2) ==
    DSqrt(DAdd(sum1, DSub(square2, DSub(DSub(sum1, DZero), sum1))))
HypotScaledBy(x, y, max) ==
    IF IsZero(max) THEN DZero
    ELSE DMul(KahanRoot(Square(DDiv(DAbs(x), max)), Square(DDiv(DAbs(y), max))), max)
MathHypot(x, y) == HypotScaledBy(x, y, IF MagCmp(x, y) >= 0 THEN DAbs(x) ELSE DAbs(y))

\* ------------------------------------------------------------ geoUtils.js
\* Coordinates are doubles, computed with the source's operations in the
\* source's order.  The sign of a zero is not kept.
\* the integers of the inputs and of the source's literals
SmallInts == (0 - 180)..720
SmallDoubles == [n \in SmallInts |-> DFromInt(n)]
\* the Number value of an integer
Number(n) == IF n \in SmallInts THEN SmallDoubles[n] ELSE DFromInt(n)
\* lonToX = (lon, w) => ((lon + 180) / 360) * w, for a double lon
lonToX(lon, w) == DMul(DDiv(DAdd(lon, Number(180)), Number(360)), Number(w))
\* latToY = (lat, h) => ((90 - lat) / 180) * h, for a double lat
latToY(lat, h) == DMul(DDiv(DSub(Number(90), lat), Number(180)), Number(h))
\* const d = Math.hypot(mx - x, my - y) for the event's pixel (x, y)
Hypot(mx, my, evt, w, h) ==
    MathHypot(DSub(Number(mx), lonToX(evt.lon, w)), DSub(Number(my), latToY(evt.lat, h)))
\* a variant of the comparison that lets the tolerance itself through
CloserOrEqual(d, minDist) == ~DLess(minDist, d)
\* if (d < minDist)
Closer(d, minDist) == DLess(d, minDist)

\* findNearestEvent = (mx, my, events, w, h, maxDist = 18)
DefaultMaxDist == 18
\* findNearestEvent(..., 16) in the map's pointer-move handler
HoverMaxDist == 16
\* the map canvas: width={720} height={330}
MapWidth == 720
MapHeight == 330
\* the grid shows events.slice(0, 20)
GridCap == 20

\* ---------------------------------------------------- hit-test inputs
\* longest event list handed to the hit-test
MaxHitEvents == 2
GeoEvt(id, lat, lon) ==
    [kind |-> "event", event_id |-> id, lat |-> Number(lat), lon |-> Number(lon)]
\* On a 360 x 180 canvas the first three project to (100,100), (120,100) and
\* (100,100), the fourth to (0, 127.00000000000001), where the quotient of
\* the projection is rounded, the last two to (1, 90) and
\* (12.999999999999998, 90).
GeoEvents ==
    {GeoEvt(1, 0 - 10, 0 - 80), GeoEvt(2, 0 - 10, 0 - 60), GeoEvt(3, 0 - 10, 0 - 80),
     GeoEvt(4, 0 - 37, 0 - 180), GeoEvt(5, 0, 0 - 179), GeoEvt(6, 0, 0 - 167)}
RECURSIVE SeqsUpTo(_, _)
SeqsUpTo(S, n) ==
    IF n = 0 THEN {<<>>}
    ELSE SeqsUpTo(S, n - 1)
             \cup {Append(q, e) : q \in {r \in SeqsUpTo(S, n - 1) : Len(r) = n - 1}, e \in S}
HitLists == SeqsUpTo(GeoEvents, MaxHitEvents)
PointerXs == {0, 7, 100, 101, 110, 116, 118, 130}
PointerYs == {90, 100, 112, 143}
\* the 360 x 180 canvas of the examples and the map's own 720 x 330
Canvases == {<<360, 180>>, <<720, 330>>}
Tolerances == {HoverMaxDist, DefaultMaxDist}

\* ------------------------------------------------ geoUtils.js: xyToLatLon
\* a variant with the latitude's sign wrong
xyToLatLonSouthUp(x, y, w, h) ==
    [lat |-> DSub(DMul(DDiv(y, Number(h)), Number(180)), Number(90)),
     lon |-> DSub(DMul(DDiv(x, Number(w)), Number(360)), Number(180))]
\* xyToLatLon(x, y, w, h) = { lat: 90 - (y / h) * 180, lon: (x / w) * 360 - 180 }
\* for doubles x and y
xyToLatLon(x, y, w, h) ==
    [lat |-> DSub(Number(90), DMul(DDiv(y, Number(h)), Number(180))),
     lon |-> DSub(DMul(DDiv(x, Number(w)), Number(360)), Number(180))]

\* ------------------------------------------------- round-trip inputs
Latitudes == (0 - 90)..90
Longitudes == (0 - 180)..180
ProjCanvases == {<<60, 30>>, <<360, 180>>, <<720, 330>>}

\* ------------------------------------------------------- eventConfig.js
\* the keys of EVENT_CONFIG
ConfiguredTypes ==
    {"deforestation", "flood", "crop_stress", "construction", "fire", "drought"}
\* the property names an object literal inherits from Object.prototype
InheritedKeys ==
    {"constructor", "toString", "toLocaleString", "valueOf", "hasOwnProperty",
     "isPrototypeOf", "propertyIsEnumerable", "__defineGetter__", "__defineSetter__",
     "__lookupGetter__", "__lookupSetter__", "__proto__"}
\* the entry of a key: its icon, label and colours
ConfigEntry(k) == [kind |-> "config", key |-> k]
\* an inherited member: Object.prototype itself for __proto__, a function
\* for every other name; neither has an icon, a label or a color
InheritedMember(k) ==
    [kind |-> IF k = "__proto__" THEN "object" ELSE "function", key |-> k]
NoConfig == [kind |-> "undefined", key |-> ""]
\* EVENT_CONFIG[type]: property access on the object literal
EVENT_CONFIG(type) ==
    IF type \in ConfiguredTypes THEN ConfigEntry(type)
    ELSE IF type \in InheritedKeys THEN InheritedMember(type)
    ELSE NoConfig
\* ToBoolean of a looked-up value
Truthy(v) == v.kind # "undefined"
\* const cfg = EVENT_CONFIG[evt.event_type] || EVENT_CONFIG.deforestation
ConfigOf(evt) ==
    IF Truthy(EVENT_CONFIG(evt.event_type)) THEN EVENT_CONFIG(evt.event_type)
    ELSE EVENT_CONFIG("deforestation")

\* ------------------------------------------------------------ mockData.js
\* generateMockEvents(30) in App
MockCount == 30
\* Math.random returns a double in [0, 1).  The numbers of a run are given
\* as numerators over 2^20; a run draws one of these streams.
RandomScale == 1048576
RandomStreams == {1, 2}
\* the numerator of the k-th number Math.random returns in stream s
RandomAt(s, k) == (7919 * k * k + 104729 * k + 611953 * s) % RandomScale
\* the double j / 2^20
RandomValue(j) == RoundToDouble(FALSE, BigFromNat(j), 0 - 20, FALSE)
\* the double of a decimal literal with one decimal place
Tenths(n) == DDiv(Number(n), Number(10))
REGIONS ==
    << [name |-> "Amazon Basin", lat |-> Tenths(0 - 34), lon |-> Tenths(0 - 622)],
       [name |-> "Bangladesh Delta", lat |-> Tenths(237), lon |-> Tenths(904)],
       [name |-> "Punjab Farmlands", lat |-> Tenths(309), lon |-> Tenths(758)],
       [name |-> "Jakarta Suburbs", lat |-> Tenths(0 - 62), lon |-> Tenths(1068)],
       [name |-> "Siberia Boreal", lat |-> Tenths(605), lon |-> Tenths(901)],
       [name |-> "Sahel Region", lat |-> Tenths(135), lon |-> Tenths(21)] >>
EVENT_TYPES == << "deforestation", "flood", "crop_stress", "construction", "fire" >>
\* list[Math.floor(Math.random() * list.length)] for the number j / 2^20
\* (the product is exact)
RandomItem(list, j) == list[(j * Len(list)) \div RandomScale + 1]
Base36Digits ==
    << "0", "1", "2", "3", "4", "5", "6", "7", "8", "9", "A", "B", "C", "D", "E", "F", "G",
       "H", "I", "J", "K", "L", "M", "N", "O", "P", "Q", "R", "S", "T", "U", "V", "W", "X",
       "Y", "Z" >>
\* Math.random().toString(36).substr(2, 8).toUpperCase() for the number
\* j / 2^20: at most n digits of its fraction in base 36, which ends within
\* ten digits
RECURSIVE Base36Fraction(_, _)
Base36Fraction(j, n) ==
    IF n = 0 \/ j = 0 THEN ""
    ELSE Base36Digits[(j * 36) \div RandomScale + 1]
             \o Base36Fraction((j * 36) % RandomScale, n - 1)
\* region.lat + (Math.random() - 0.5), and the same for lon
Jitter(degrees, j) == DAdd(degrees, DSub(RandomValue(j), DDiv(Number(1), Number(2))))
\* Math.round(Math.random() * 2000 + 10) for the number j / 2^20 (product
\* and sum are exact; Math.round rounds halves up, and 10 is whole)
MockArea(j) == (2000 * j + RandomScale \div 2) \div RandomScale + 10
\* the event generateMockEvents makes in a region after k numbers of stream
\* s were drawn.  It draws twelve: region, type, severity, event_id, lat,
\* lon, confidence, area_hectares, ndvi_delta, satellite, timestamp,
\* tile_id.  The fields the views' logic reads are kept.
MockEventIn(region, s, k) ==
    [kind |-> "event",
     event_id |-> "EVT_" \o Base36Fraction(RandomAt(s, k + 4), 8),
     event_type |-> RandomItem(EVENT_TYPES, RandomAt(s, k + 2)),
     lat |-> Jitter(region.lat, RandomAt(s, k + 5)),
     lon |-> Jitter(region.lon, RandomAt(s, k + 6)),
     area_hectares |-> MockArea(RandomAt(s, k + 8))]
MockEvent(s, k) == MockEventIn(RandomItem(REGIONS, RandomAt(s, k + 1)), s, k)
\* generateMockEvents(n) = Array.from({ length: n }, ...) on stream s
generateMockEvents(n, s) == [i \in 1..n |-> MockEvent(s, 12 * (i - 1))]
\* what generateMockEvents(30) returns on each stream, computed once
MockOutcomes == [s \in RandomStreams |-> generateMockEvents(MockCount, s)]
\* const [mockEvents] = useState(() => generateMockEvents(30)): drawn once,
\* at the first render, and never set again
mockEvents == MockOutcomes[random]

\* ------------------------------------------------------------ view inputs
\* an event as the views read it; the server sends whole degrees here
ViewEvt(id, type, lat, lon) ==
    [kind |-> "event", event_id |-> id, event_type |-> type,
     lat |-> Number(lat), lon |-> Number(lon), area_hectares |-> 250]
\* on the 720 x 330 map: a fire at (100, 110), a flood at (120, 110), an event
\* of a type the server added later at (360, 165), one whose type is the name
\* of an inherited property at (480, 220), a drought at (100, 110), and a
\* fire without its area at (360, 165)
EvFire == ViewEvt("EVT_FIRE", "fire", 30, 0 - 130)
EvFlood == ViewEvt("EVT_FLOOD", "flood", 30, 0 - 120)
EvNovel == ViewEvt("EVT_NOVEL", "unknown_x", 0, 0)
EvProto == ViewEvt("EVT_PROTO", "constructor", 0 - 30, 60)
EvDrought == ViewEvt("EVT_DROUGHT", "drought", 30, 0 - 130)
\* an event the server sent without its area
EvBare ==
    [kind |-> "event", event_id |-> "EVT_BARE", event_type |-> "fire",
     lat |-> Number(0), lon |-> Number(0)]
ViewFrames ==
    { JsonFrame("history", Arr(<< EvFire, EvFlood, EvNovel, EvProto >>)),
      JsonFrame("history", Arr(<< EvFlood, EvBare >>)),
      JsonFrame("new_events", Arr(<< EvDrought >>)) }
\* pointer positions in canvas pixels: 17 px left of the fire, on the novel
\* event, on empty ocean, and on the Siberian region, where mock events of
\* both streams lie
ViewPointers ==
    { <<83, 110>>, <<360, 165>>, <<300, 300>>, <<540, 54>> }
\* the items of the grid and of the feed a click is tried on: the first and
\* the last the grid can show
ClickedItems == {1, GridCap}
\* the filter pills a click is tried on: "all" and two of the six types
ClickedPills == {"all", "flood", "drought"}
TabKeys == {"map", "grid"}

\* ------------------------------------------- geoUtils.js: findNearestEvent
\* the distances of the inputs, each computed once
ViewEvents ==
    {EvFire, EvFlood, EvNovel, EvProto, EvDrought, EvBare}
        \cup {MockOutcomes[s][i] : s \in RandomStreams, i \in 1..MockCount}
HitKeys ==
    {<< mx, my, e.lat, e.lon, c[1], c[2] >> :
         mx \in PointerXs, my \in PointerYs, e \in GeoEvents, c \in Canvases}
ViewKeys ==
    {<< p[1], p[2], e.lat, e.lon, MapWidth, MapHeight >> : p \in ViewPointers, e \in ViewEvents}
HitDistances ==
    [k \in HitKeys |-> Hypot(k[1], k[2], [lat |-> k[3], lon |-> k[4]], k[5], k[6])]
ViewDistances ==
    [k \in ViewKeys |-> Hypot(k[1], k[2], [lat |-> k[3], lon |-> k[4]], k[5], k[6])]
\* const d = Math.hypot(mx - x, my - y): looked up for the inputs above,
\* computed for any other
Distance(mx, my, evt, w, h) ==
    IF << mx, my, evt.lat, evt.lon, w, h >> \in ViewKeys
    THEN ViewDistances[<< mx, my, evt.lat, evt.lon, w, h >>]
    ELSE IF << mx, my, evt.lat, evt.lon, w, h >> \in HitKeys
    THEN HitDistances[<< mx, my, evt.lat, evt.lon, w, h >>]
    ELSE Hypot(mx, my, evt, w, h)

\* events.forEach from entry i on, with the closest event and the minimum
\* distance found so far
RECURSIVE NearestFrom(_, _, _, _, _, _, _, _)
\* if (d < minDist) { minDist = d; closest = evt; }
Compare(mx, my, evts, w, h, i, closest, minDist, d) ==
    IF Closer(d, minDist)
    THEN NearestFrom(mx, my, evts, w, h, i + 1, evts[i], d)
    ELSE NearestFrom(mx, my, evts, w, h, i + 1, closest, minDist)
NearestFrom(mx, my, evts, w, h, i, closest, minDist) ==
    IF i > Len(evts) THEN closest
    ELSE Compare(mx, my, evts, w, h, i, closest, minDist, Distance(mx, my, evts[i], w, h))

\* let closest = null, minDist = maxDist
findNearestEvent(mx, my, evts, w, h, maxDist) ==
    NearestFrom(mx, my, evts, w, h, 1, NoEvent, Number(maxDist))

HitInit ==
    hit = [calls |-> 0, mx |-> 0, my |-> 0, evts |-> <<>>, w |-> 360, h |-> 180,
           maxDist |-> DefaultMaxDist, result |-> NoEvent]

\* one call of findNearestEvent
HitTest(mx, my, evts, c, tol) ==
    /\ hit.calls = 0
    /\ hit' = [calls |-> 1, mx |-> mx, my |-> my, evts |-> evts, w |-> c[1], h |-> c[2],
               maxDist |-> tol, result |-> findNearestEvent(mx, my, evts, c[1], c[2], tol)]
    /\ UNCHANGED << streamVars, proj, appVars >>

\* ------------------------------------------------------- the round trip
\* the pixels of the inputs and the positions they go back to, each
\* computed once; the two coordinates do not depend on each other
LonKeys == {<< lon, c >> : lon \in Longitudes, c \in ProjCanvases}
LatKeys == {<< lat, c >> : lat \in Latitudes, c \in ProjCanvases}
ProjX == [k \in LonKeys |-> lonToX(Number(k[1]), k[2][1])]
ProjY == [k \in LatKeys |-> latToY(Number(k[1]), k[2][2])]
BackLon == [k \in LonKeys |-> xyToLatLon(ProjX[k], DZero, k[2][1], k[2][2]).lon]
BackLat == [k \in LatKeys |-> xyToLatLon(DZero, ProjY[k], k[2][1], k[2][2]).lat]

ProjInit ==
    proj = [calls |-> 0, lat |-> 0, lon |-> 0, w |-> 360, h |-> 180, x |-> DZero, y |-> DZero,
            back |-> [lat |-> DZero, lon |-> DZero]]

\* project a position to the canvas and the pixel back to a position:
\* xyToLatLon(lonToX(lon, w), latToY(lat, h), w, h)
RoundTrip(lat, lon, c) ==
    /\ proj.calls = 0
    /\ proj' = [calls |-> 1, lat |-> lat, lon |-> lon, w |-> c[1], h |-> c[2],
                x |-> ProjX[<< lon, c >>], y |-> ProjY[<< lat, c >>],
                back |-> [lat |-> BackLat[<< lat, c >>], lon |-> BackLon[<< lon, c >>]]]
    /\ UNCHANGED << streamVars, hit, appVars >>

\* ----------------------------------------------------------------- App.jsx
\* a variant that chooses by the connection flag
AppEventsByConnection(wsEvents) ==
    IF connected THEN wsEvents.items ELSE mockEvents
\* const events = wsEvents.length > 0 ? wsEvents : mockEvents
AppEvents(wsEvents) ==
    IF Len(wsEvents.items) > 0 THEN wsEvents.items ELSE mockEvents
\* events.filter((e) => e.event_type === filter)
FilterByType(evts, type) == SelectSeq(evts, LAMBDA e : e.event_type = type)
\* filteredEvents: what the map and the grid are given
FilteredEvents ==
    LET Filtered(evts) == IF filter = "all" THEN evts ELSE FilterByType(evts, filter)
    IN Filtered(AppEvents(events))
\* the grid's items: events.slice(0, 20)
GridItems == Slice(Arr(FilteredEvents), GridCap).items
\* the feed's items: (feed.length > 0 ? feed : events.slice(0, 20)).slice(0, 20)
FeedItems ==
    IF Len(feed.items) > 0 THEN Slice(feed, FeedCap).items
    ELSE Slice(Slice(Arr(AppEvents(events)), FeedCap), FeedCap).items

\* the view before any input, with Math.random returning one of streams
AppInit(streams) ==
    /\ random \in streams
    /\ selected = NoEvent
    /\ filter = "all"
    /\ tab = "map"
    /\ hovered = NoEvent
    /\ click = [count |-> 0, mx |-> 0, my |-> 0]

\* EventDetail renders the selected event while the map tab is shown.  Of
\* the fields it reads, confidence, ndvi_delta, lat, lon and timestamp may be
\* missing without a throw; formatArea(event.area_hectares) throws a
\* TypeError for undefined (ha >= 100000 and ha >= 1000 are false, and
\* ha.toFixed(0) then throws)
DetailThrows(evt) == "area_hectares" \notin DOMAIN evt

\* handleSelect: setSelected(evt); setTab("map").  React renders a click's
\* updates before the click returns: App shows the map with EventDetail for
\* the event, or that render throws.
HandleSelect(evt) ==
    IF DetailThrows(evt)
    THEN RenderFails
    ELSE /\ selected' = evt
         /\ tab' = "map"
         /\ UNCHANGED << streamVars, geoVars, filter, hovered, random >>

\* a click on a filter pill
SetFilter(k) ==
    /\ mounted
    /\ filter' = k
    /\ UNCHANGED << streamVars, geoVars, selected, tab, hovered, click, random >>

\* a click on a tab; leaving the map unmounts WorldMap and its hover state
SetTab(k) ==
    /\ mounted
    /\ tab' = k
    /\ hovered' = IF k = "map" THEN hovered ELSE NoEvent
    /\ UNCHANGED << streamVars, geoVars, selected, filter, click, random >>

\* a click on an item of the grid
GridSelect(i) ==
    /\ mounted
    /\ tab = "grid"
    /\ i \in 1..Len(GridItems)
    /\ HandleSelect(GridItems[i])
    /\ UNCHANGED click

\* a click on an item of the feed
FeedSelect(i) ==
    /\ mounted
    /\ i \in 1..Len(FeedItems)
    /\ HandleSelect(FeedItems[i])
    /\ UNCHANGED click

\* EventDetail's onClose: setSelected(null)
CloseDetail ==
    /\ mounted
    /\ tab = "map"
    /\ selected # NoEvent
    /\ selected' = NoEvent
    /\ UNCHANGED << streamVars, geoVars, filter, tab, hovered, click, random >>

\* --------------------------------------------------------------- WorldMap
\* handleClick: the nearest event within the default tolerance, if any, is
\* selected
ClickTarget(mx, my) ==
    findNearestEvent(mx, my, FilteredEvents, MapWidth, MapHeight, DefaultMaxDist)
\* handleMouseMove: the nearest event within 16 px, or null
HoverTarget(mx, my) ==
    findNearestEvent(mx, my, FilteredEvents, MapWidth, MapHeight, HoverMaxDist)

\* a variant of the click handler that deselects on a miss
MapClickDeselects(mx, my) ==
    /\ mounted
    /\ tab = "map"
    /\ click.count < MaxClicks
    /\ click' = [count |-> click.count + 1, mx |-> mx, my |-> my]
    /\ IF ClickTarget(mx, my) # NoEvent
       THEN HandleSelect(ClickTarget(mx, my))
       ELSE /\ selected' = NoEvent
            /\ UNCHANGED << streamVars, geoVars, filter, tab, hovered, random >>

\* handleClick: const nearest = findNearestEvent(...); if (nearest) onSelect(nearest)
MapClick(mx, my) ==
    /\ mounted
    /\ tab = "map"
    /\ click.count < MaxClicks
    /\ click' = [count |-> click.count + 1, mx |-> mx, my |-> my]
    /\ IF ClickTarget(mx, my) # NoEvent
       THEN HandleSelect(ClickTarget(mx, my))
       ELSE UNCHANGED << streamVars, geoVars, selected, filter, tab, hovered, random >>

\* handleMouseMove: setHovered(findNearestEvent(..., 16))
MapMove(mx, my) ==
    /\ mounted
    /\ tab = "map"
    /\ hovered' = HoverTarget(mx, my)
    /\ UNCHANGED << streamVars, geoVars, selected, filter, tab, click, random >>

\* onMouseLeave: setHovered(null)
MapLeave ==
    /\ mounted
    /\ tab = "map"
    /\ hovered' = NoEvent
    /\ UNCHANGED << streamVars, geoVars, selected, filter, tab, click, random >>

\* ------------------------------------------------------- specifications
\* the mock events play no part but in the view's specification
Init == StreamInit /\ HitInit /\ ProjInit /\ AppInit({1})
\* App calls useEventStream() with no argument, and Math.random may return
\* any of the streams
ViewInit ==
    /\ StreamInit
    /\ maxEvents = DefaultMaxEvents
    /\ HitInit /\ ProjInit /\ AppInit(RandomStreams)

\* the stream client through its whole lifecycle, with a few frames
Next ==
    \/ Mount
    \/ Rerun
    \/ Teardown
    \/ \E s \in Attempts : OnOpen(s)
    \/ \E s \in Attempts : OnError(s)
    \/ \E s \in Attempts : OnClose(s)
    \/ Tick
    \/ \E t \in Attempts : FireTimer(t)
    \/ \E s \in Attempts, f \in LifeFrames : OnMessage(s, f, MaxLifeMsgs)
    \/ Render

Spec == Init /\ [][Next]_vars

\* The connection lifecycle alone, with no frames delivered and the
\* scheduling stated: time passes, a timer's callback runs once its delay
\* has passed, and React renders the updates queued.
LifeNext ==
    \/ Mount
    \/ Rerun
    \/ Teardown
    \/ \E s \in Attempts : OnOpen(s)
    \/ \E s \in Attempts : OnError(s)
    \/ \E s \in Attempts : OnClose(s)
    \/ Tick
    \/ \E t \in Attempts : FireTimer(t)
    \/ Render

FairSpec ==
    /\ Init
    /\ [][LifeNext]_vars
    /\ WF_vars(Tick)
    /\ \A t \in Attempts : WF_vars(FireTimer(t))
    /\ WF_vars(Render)

\* the stream client on its first connection, with every kind of frame,
\* until the connection drops
WinNext ==
    \/ Mount
    \/ \E s \in Attempts : OnOpen(s)
    \/ \E s \in Attempts : OnClose(s)
    \/ \E s \in Attempts, f \in WinFrames : OnMessage(s, f, MaxWinMsgs)
    \/ Render

WinSpec == Init /\ [][WinNext]_vars

\* the hit-test as a function of its arguments
HitNext ==
    /\ hit.calls = 0
    /\ \E mx \in PointerXs, my \in PointerYs, evts \in HitLists, c \in Canvases,
          tol \in Tolerances :
           HitTest(mx, my, evts, c, tol)

HitSpec == Init /\ [][HitNext]_vars

\* the projection and its inverse as functions of their arguments
ProjNext ==
    /\ proj.calls = 0
    /\ \E lat \in Latitudes, lon \in Longitudes, c \in ProjCanvases : RoundTrip(lat, lon, c)

ProjSpec == Init /\ [][ProjNext]_vars

\* the view and its stream client through the client's whole lifecycle.
\* App calls useEventStream() with no argument, so connect is the same
\* function at every render and the effect runs once, when App mounts.
ViewNext ==
    \/ Mount
    \/ Teardown
    \/ \E s \in Attempts : OnOpen(s)
    \/ \E s \in Attempts : OnError(s)
    \/ \E s \in Attempts : OnClose(s)
    \/ Tick
    \/ \E t \in Attempts : nextSock <= MaxViewSockets /\ FireTimer(t)
    \/ \E s \in Attempts, f \in ViewFrames : OnMessage(s, f, MaxViewMsgs)
    \/ Render
    \/ \E k \in ClickedPills : SetFilter(k)
    \/ \E k \in TabKeys : SetTab(k)
    \/ \E i \in ClickedItems : GridSelect(i)
    \/ \E i \in ClickedItems : FeedSelect(i)
    \/ CloseDetail
    \/ \E p \in ViewPointers : MapClick(p[1], p[2])
    \/ \E p \in ViewPointers : MapMove(p[1], p[2])
    \/ MapLeave

ViewSpec == ViewInit /\ [][ViewNext]_vars

\* ------------------------------------------------------------------ claims
Take(q, n) == SubSeq(q, 1, Min(n, Len(q)))
\* a step that handles a frame
Handled == msgCount' = msgCount + 1
\* what the hook returns once React has rendered the updates queued
Shown == ApplyQueue(Cells, queue)
\* a step in which React renders the queued updates and commits
Commits == queue # << >> /\ queue' = << >> /\ mounted'
EventIds(v) == {i \in 1..Len(v.items) : v.items[i].kind = "event"}

\* C1: whatever frames were handled, the full window holds at most
\* maxEvents entries and the feed at most 20.
C1_WindowCaps == Len(events.items) <= maxEvents /\ Len(feed.items) <= FeedCap
\* a delta arrived on top of full windows, and both caps (200 and 20) bit
C1_Witness ==
    /\ maxEvents = DefaultMaxEvents
    /\ lastFrame = JsonFrame("new_events", Arr(<<EvD>>))
    /\ Len(events.items) = DefaultMaxEvents
    /\ Len(feed.items) = FeedCap
    /\ events.items[1] = EvD

\* the render of the updates queued throws
Failing == QueueThrows(queue) \/ AppThrows(Shown)
\* a step that handles a frame whose updates React renders: the component
\* is mounted and the render of the updates queued does not throw
Rendered == Handled /\ mounted /\ ~Failing'

\* C2: once rendered, a history frame leaves exactly the first maxEvents
\* entries of its batch, in batch order; a new_events frame leaves its
\* batch, in batch order, followed by the previous window, cut to
\* maxEvents.  The events' timestamps play no part.  The previous window is
\* the window as the updates queued before the frame leave it, and the
\* render that commits shows exactly that window.
C2_ReplaceAndPrepend ==
    [][ /\ (Rendered /\ lastFrame' \in WellFormedFrames) =>
            /\ lastFrame'.type = "history" =>
                   Shown'.events = Arr(Take(lastFrame'.events.items, maxEvents))
            /\ lastFrame'.type = "new_events" =>
                   Shown'.events =
                       Arr(Take(lastFrame'.events.items \o Shown.events.items, maxEvents))
        /\ Commits => events' = Shown.events
      ]_vars
\* history [A,B,C] then delta [D]: D, whose timestamp is the oldest, is first
C2_Witness ==
    /\ events = Arr(<<EvD, EvA, EvB, EvC>>)
    /\ lastFrame = JsonFrame("new_events", Arr(<<EvD>>))
    /\ EvD.timestamp < EvA.timestamp

\* C3: no event_id occurs twice in the full window or in the feed.
C3_UniqueIds ==
    \A v \in {events, feed} :
        \A i, j \in EventIds(v) : v.items[i].event_id = v.items[j].event_id => i = j

\* a frame of the three malformed shapes: not JSON, or a history/new_events
\* frame whose `events` is absent or no array
Malformed(f) ==
    \/ ~f.json
    \/ f.type \in {"history", "new_events"} /\ f.events.kind # "array"

\* C6: a malformed frame changes none of events, feed, latestEvent and
\* connected, neither in the handler nor when React renders what the
\* handler queued, raises nothing (in the handler, or later in the render
\* of what the handler queued), and leaves every socket as it was.
C6_MalformedDropped ==
    [][ (Handled /\ Malformed(lastFrame')) =>
            /\ UNCHANGED << events, feed, latestEvent, connected, sock >>
            /\ Shown' = Shown
            /\ Failing' = Failing
      ]_vars

\* C7: a JSON frame of another type, or of no type, changes nothing of the
\* hook's state, closes no socket and schedules no reconnect.
C7_OtherTypeIgnored ==
    [][ (Handled /\ lastFrame'.json /\ lastFrame'.type \notin {"history", "new_events"}) =>
            UNCHANGED << events, feed, latestEvent, connected, queue, renderFailed, sock,
                         timers, reconnectTimer, wsRef, nextSock, connectCalls >>
      ]_vars
\* such a frame was handled with events in both windows and a latest event
C7_Witness ==
    /\ lastFrame.json
    /\ lastFrame.type \notin {"history", "new_events", "none"}
    /\ Len(events.items) > 0
    /\ Len(feed.items) > 0
    /\ latestEvent # NoEvent
    /\ connected

\* C4: while the view stays torn down (the component has unmounted and its
\* cleanup has run), no connection attempt is made.
C4_NoAttemptAfterTeardown ==
    [][ (~mounted /\ ~mounted') => nextSock' = nextSock ]_vars

Pending == {t \in Attempts : timers[t] >= 0}
InFlight == {s \in Attempts : sock[s] \in {"CONNECTING", "OPEN", "CLOSING"}}

\* the states of C5: at most one socket or timer is under way, a socket
\* that reported an error is closed, a closed one has connected false and
\* its retry pending, and no attempt is made while a timer has time left
C5_StatePart ==
    teardowns = 0 =>
        /\ Cardinality(InFlight) + Cardinality(Pending) <= 1
        /\ \A s \in Attempts :
              /\ s = lastError => sock[s] = "CLOSED"
              /\ (sock[s] = "CLOSED" /\ nextSock = s + 1) =>
                     (~Shown.connected /\ timers[s] >= 0)
              /\ timers[s] > 0 => nextSock = s + 1
\* the steps of C5: an error closes the socket; a close sets connected
\* false (React's next render shows it) and the full backoff delay; the
\* delay runs down a second at a time; an attempt is made only by a timer
\* that has run out
C5_StepPart ==
    teardowns' = 0 =>
        /\ \A s \in Attempts :
              /\ (s = lastError' /\ s # lastError) => (Live(s) /\ sock'[s] = "CLOSED")
              /\ (sock[s] # "CLOSED" /\ sock'[s] = "CLOSED") =>
                     (~Shown'.connected /\ timers'[s] = BackoffDelay /\ nextSock' = nextSock)
              /\ Commits => connected' = Shown.connected
              /\ (timers[s] > 0 /\ timers'[s] # timers[s]) => timers'[s] = timers[s] - 1
        /\ (mounted /\ nextSock' # nextSock) =>
               /\ nextSock' = nextSock + 1
               /\ \E t \in Attempts : timers[t] = 0 /\ timers'[t] = NoTimer
\* C5: with no teardown so far, an error on the open socket leaves it
\* closed and connected false, and exactly one new connection attempt
\* follows, after the 3-second backoff and not before.
C5_ErrorThenRetry == [](C5_StatePart) /\ [][C5_StepPart]_vars
\* the first socket opened, delivered a frame and reported an error: it is
\* closed, connected is false, and the one retry was made by the timer
C5_Witness ==
    /\ teardowns = 0
    /\ 1 \in delivered
    /\ lastError = 1
    /\ sock[1] = "CLOSED"
    /\ ~connected
    /\ sock[2] = "CONNECTING"
    /\ nextSock = 3
    /\ connectCalls = 2

\* attempt a was made and has failed: its socket closed, or the constructor threw
Failed(a) == a < nextSock /\ sock[a] \in {"CLOSED", "NONE"}

\* a step in which the transport fails a connecting or open socket
EnvFail ==
    \E s \in Attempts : Live(s) /\ sock'[s] \in {"CLOSING", "CLOSED"} /\ mounted' = mounted
\* every attempt this model allows was made and has failed
Exhausted == nextSock > MaxSockets /\ \A a \in Attempts : Failed(a)
\* the upstream is reachable from some point on: handshakes complete, close
\* handshakes complete, and the transport fails no socket any more
UpstreamStaysReachable ==
    /\ \A s \in Attempts : WF_vars(OnOpen(s)) /\ WF_vars(sock[s] = "CLOSING" /\ OnClose(s))
    /\ <>[][~EnvFail]_vars

\* C8: unless a teardown occurs, every failed or closed attempt is followed
\* by another attempt (up to the bound on attempts of this model); and if
\* the upstream stays reachable from some point on, the mounted client
\* reaches an open socket with connected = true (or a teardown occurs, or
\* the attempts of this model are used up).
C8_AlwaysRetries ==
    /\ \A a \in 1..(MaxSockets - 1) :
           (Failed(a) /\ teardowns = 0) ~> (nextSock > a + 1 \/ teardowns > 0)
    /\ UpstreamStaysReachable =>
           ((mounted /\ teardowns = 0) ~>
                \/ connected /\ wsRef # 0 /\ sock[wsRef] = "OPEN"
                \/ teardowns > 0
                \/ Exhausted)
\* the last attempt the bound allows was made by a retry of a retry
C8_Witness ==
    /\ teardowns = 0
    /\ nextSock = MaxSockets + 1
    /\ \A a \in 1..(MaxSockets - 1) : Failed(a)

\* C9: a call of connect while the socket held is open (a call the cleanup
\* has not just closed that socket for) creates no socket, keeps the socket
\* held and leaves the hook's state as it is.
C9_ConnectWhileOpenIsNoOp ==
    [][ (/\ connectCalls' = connectCalls + 1
         /\ teardowns' = teardowns
         /\ wsRef # 0
         /\ sock[wsRef] = "OPEN") =>
            UNCHANGED << sock, wsRef, nextSock, reconnectTimer, events, feed, latestEvent,
                         connected, queue >>
      ]_vars
\* connect was called more often than attempts were made, with the socket held open
C9_Witness ==
    /\ connectCalls > nextSock - 1
    /\ wsRef # 0
    /\ sock[wsRef] = "OPEN"
    /\ connected

\* the distance of an event to the pointer of the last hit-test, as the
\* hit-test computes it
HitDist(e) == Distance(hit.mx, hit.my, e, hit.w, hit.h)
HitTol == Number(hit.maxDist)
HitRange == 1..Len(hit.evts)

\* C10: the hit-test returns an event of the list at minimal distance when
\* that minimum is strictly below the tolerance, and null otherwise (empty
\* list, or every event at the tolerance or beyond).
C10_NearestWithinTolerance ==
    hit.calls = 1 =>
        IF \E i \in HitRange : DLess(HitDist(hit.evts[i]), HitTol)
        THEN /\ \E i \in HitRange : hit.result = hit.evts[i]
             /\ \A i \in HitRange : ~DLess(HitDist(hit.evts[i]), HitDist(hit.result))
             /\ DLess(HitDist(hit.result), HitTol)
        ELSE hit.result = NoEvent
\* the event at (100,100) is returned for the pointer (101,100), tolerance 18
C10_Witness ==
    /\ hit.calls = 1
    /\ hit.mx = 101 /\ hit.my = 100 /\ hit.w = 360 /\ hit.h = 180
    /\ hit.maxDist = DefaultMaxDist
    /\ hit.evts = <<GeoEvt(2, 0 - 10, 0 - 60), GeoEvt(1, 0 - 10, 0 - 80)>>
    /\ hit.result = GeoEvt(1, 0 - 10, 0 - 80)

\* ---------------------------------------------------------- latestEvent
\* some frame has put an event into the full window
WindowHasEvent == Len(events.items) > 0

\* C13: whenever the full window holds an event, latestEvent is the first
\* entry of the window, and latestEvent is null only while the window is
\* empty.
C13_LatestIsNewest ==
    /\ WindowHasEvent => latestEvent = events.items[1]
    /\ latestEvent = NoEvent => ~WindowHasEvent

\* ------------------------------------------------- frozen last-known window
\* the two windows and the latest event of cells c
Windows(c) == << c.events, c.feed, c.latestEvent >>

\* C18: every step that handles no frame (a socket's open, close or error
\* event, a timer firing, a second passing, the effect or its cleanup) leaves
\* events, feed and latestEvent exactly as they were, and as they will be
\* once React has rendered; the render itself shows what the frames handled
\* before it queued.
C18_OnlyMessagesChangeWindows ==
    [][~Handled =>
           /\ mounted' => Windows(Shown') = Windows(Shown)
           /\ ~Commits => UNCHANGED << events, feed, latestEvent >>]_vars

\* disconnected and retrying on a second socket with the window of the first
\* connection still shown
C18_Witness ==
    /\ ~connected
    /\ WindowHasEvent
    /\ sock[1] = "CLOSED"
    /\ sock[2] = "CONNECTING"
    /\ mounted /\ teardowns = 0

\* ----------------------------------------------------------- live sockets
LiveSockets == {s \in Attempts : Live(s)}

\* C19: at most one socket created by the client is connecting or open.
C19_OneLiveSocket == Cardinality(LiveSockets) <= 1

\* C20: on the mounted component connected (as React shows it once it has
\* rendered the updates queued) is true only while the socket held in wsRef
\* has had its open event and not yet its close event.
C20_ConnectedMeansHeldSocketOpen ==
    (mounted /\ Shown.connected) => (wsRef # 0 /\ sock[wsRef] \in {"OPEN", "CLOSING"})

\* ----------------------------------------------- connection generations
\* the events of a frame's or a window's list
EventsOf(v) == {v.items[i] : i \in 1..Len(v.items)}

\* this step handles, on the mounted component, the first frame of a socket
\* after an earlier socket delivered frames: the first message of a new
\* connection after a reconnect
FirstOnNewConnection ==
    /\ Handled
    /\ mounted
    /\ delivered # {}
    /\ delivered' # delivered

\* C16: once the first history or new_events frame of a new connection has
\* been handled (and React has rendered it), every event of the two windows
\* is an event of that frame.
C16_FirstMessageReplaces ==
    [][(/\ FirstOnNewConnection
        /\ lastFrame'.json
        /\ lastFrame'.type \in {"history", "new_events"}
        /\ lastFrame'.events.kind = "array")
       => (/\ EventsOf(Shown'.events) \subseteq EventsOf(lastFrame'.events)
           /\ EventsOf(Shown'.feed) \subseteq EventsOf(lastFrame'.events))]_vars

\* -------------------------------------------------- projection round trip
\* 2^-44 degrees, twice the spacing of the doubles between 128 and 256
RoundTripError == [neg |-> FALSE, m |-> BigShl(<< 1 >>, SignificandBits - 1), e |-> 0 - 96]
DegreesBelow == [n \in Longitudes |-> DSub(Number(n), RoundTripError)]
DegreesAbove == [n \in Longitudes |-> DAdd(Number(n), RoundTripError)]
\* the doubles x and y are equal
DEq(x, y) == ~DLess(x, y) /\ ~DLess(y, x)
\* the double x is within 2^-44 of the whole number of degrees n
NearDegrees(x, n) == ~DLess(x, DegreesBelow[n]) /\ ~DLess(DegreesAbove[n], x)

\* C14: projecting a whole-degree position to the canvas and the pixel back
\* gives the position again.  The identity is exact in rational arithmetic;
\* in the doubles the code computes with it holds to floating-point
\* precision: the latitude and the longitude that xyToLatLon returns for
\* (lonToX(lon, w), latToY(lat, h)) are within 2^-44 degrees of lat and lon.
C14_RoundTrip ==
    proj.calls > 0 =>
        /\ NearDegrees(proj.back.lat, proj.lat)
        /\ NearDegrees(proj.back.lon, proj.lon)

\* longitude 5 on a canvas 360 wide comes back a little below 5, within
\* the precision; latitude -90 comes back exactly
C14_Witness ==
    /\ proj.calls = 1
    /\ proj.lat = 0 - 90 /\ proj.lon = 5
    /\ proj.w = 360 /\ proj.h = 180
    /\ DEq(proj.y, Number(180))
    /\ DEq(proj.back.lat, Number(0 - 90))
    /\ DLess(proj.back.lon, Number(5))
    /\ NearDegrees(proj.back.lon, 5)

\* ------------------------------------------------------------ the view
\* C11: every click on the map that selects an event is at a pointer
\* position that also hovers some event when the pointer moves there (the
\* click tolerance is the tighter of the two).
C11_ClickWithinHover ==
    [][\A p \in ViewPointers :
          (MapClick(p[1], p[2]) /\ ClickTarget(p[1], p[2]) # NoEvent)
              => HoverTarget(p[1], p[2]) # NoEvent]_vars

\* the event_ids of the events the map and the grid are given
VisibleIds == {FilteredEvents[i].event_id : i \in 1..Len(FilteredEvents)}
Visible(evt) == evt = NoEvent \/ evt.event_id \in VisibleIds

\* C12: the selected event and the hovered event are each null or an event
\* whose event_id is in the visible (filtered, windowed) event set.
C12_SelectionVisible == Visible(selected) /\ Visible(hovered)

\* the events some view draws: the map's and grid's, and the feed's
DrawnEvents ==
    {FilteredEvents[i] : i \in 1..Len(FilteredEvents)}
        \cup {FeedItems[i] : i \in 1..Len(FeedItems)}
        \cup (IF selected = NoEvent THEN {} ELSE {selected})

\* C15: every drawn event whose event_type is none of the six configured
\* values is drawn with the default config entry.
C15_UnknownTypeUsesDefault ==
    \A evt \in DrawnEvents :
        evt.event_type \notin ConfiguredTypes => ConfigOf(evt) = ConfigEntry("deforestation")

\* the original statement of C17: the fallback set is shown exactly while
\* disconnected, the stream's window (even when empty) while connected.
C17_FallbackIffDisconnected ==
    /\ connected => AppEvents(events) = events.items
    /\ ~connected => AppEvents(events) = mockEvents

\* C17: the fallback set is shown exactly while the stream's full window is
\* empty, and the stream's window whenever it holds an event, whatever the
\* value of connected.
C17_FallbackIffWindowEmpty ==
    /\ WindowHasEvent => AppEvents(events) = events.items
    /\ ~WindowHasEvent => AppEvents(events) = mockEvents
    /\ AppEvents(events) # << >>

\* the connection dropped after a snapshot: disconnected, and the map shows
\* the last-known window, not the fallback set
C17_Witness ==
    /\ ~connected
    /\ sock[1] = "CLOSED"
    /\ WindowHasEvent
    /\ filter = "all"
    /\ FilteredEvents = events.items
    /\ FilteredEvents # mockEvents

\* ------------------------------------------------------- feed and window
\* C21: with maxEvents at least 20, whatever frames were handled, the feed
\* is the first min(20, length) entries of the full window.
C21_FeedIsPrefix ==
    maxEvents >= FeedCap =>
        /\ feed.kind = events.kind
        /\ feed.items = Take(events.items, FeedCap)

\* a delta arrived on top of a snapshot longer than the feed: the window
\* holds more than 20 events, the feed its first 20, the new event first
C21_Witness ==
    /\ maxEvents = DefaultMaxEvents
    /\ lastFrame = JsonFrame("new_events", Arr(<<EvD>>))
    /\ Len(events.items) > FeedCap
    /\ Len(feed.items) = FeedCap
    /\ feed.items[1] = EvD
    /\ feed.items = Take(events.items, FeedCap)

\* ------------------------------------------------------ clicks that miss
\* this step handles a map click whose hit-test finds no event within the
\* click tolerance
MissedClick ==
    /\ click'.count = click.count + 1
    /\ ClickTarget(click'.mx, click'.my) = NoEvent

\* C22: a map click whose hit-test finds no event leaves the selected
\* event, the filter and the tab as they were.
C22_MissedClickChangesNothing ==
    [][MissedClick => UNCHANGED << selected, filter, tab >>]_vars

\* an event is selected and shown on the map, and the last click was on
\* empty ocean, where the hit-test finds nothing: the selection is still there
C22_Witness ==
    /\ click.count > 0
    /\ click.mx = 300 /\ click.my = 300
    /\ ClickTarget(click.mx, click.my) = NoEvent
    /\ tab = "map"
    /\ selected # NoEvent
    /\ Visible(selected)

====
